---- MODULE Spec2Model ----
(***************************************************************************)
(* Seat apportionment (src/apportionment.py): the highest-averages         *)
(* allocator equal_proportions, the largest-remainders allocator           *)
(* largest_remainders, and their no-losers variants, as a state machine.   *)
(*                                                                         *)
(* One run = one call made by main (line 174): the inputs are drawn in     *)
(* Init, pc follows the control flow of the called function, and a run     *)
(* ends in pc = "done" (the function returned a table) or pc = "failed"    *)
(* (an exception left the function).                                       *)
(***************************************************************************)
EXTENDS Integers, FiniteSets, Sequences, TLC

\* ------------------------------------------------------------------ bounds
\* Largest population of an entity in the runs of equal_proportions and in
\* the runs of largest_remainders, largest prior seat count (APP2010) and
\* largest requested seat total.
MaxPop == 2
LRMaxPop == 3
MaxPrior == 2
MaxTarget == 4
\* The award loop of equal_proportions has no iteration ceiling; the model
\* stops exploring it once this many seats are assigned.
MaxTotal == 13
\* Inputs of the runs that call plain largest_remainders at two totals.
TotalsMaxPop == 4
TotalsMaxTarget == 6

\* Inputs of the no-losers runs of largest_remainders on larger tables.
NLMaxPop == 8
NLMaxTarget == 7

\* The table's rows in input order (the DataFrame index positions).
Entities == 1 .. 3

DivisorTypes ==
    {"huntington-hill", "jefferson", "webster", "imperiali", "danish", "hamilton"}
QuotaTypes == {"hare", "droop", "hagenbach-bischoff", "imperiali"}

VARIABLES
    POPULATION,      \* data.POPULATION: entity -> population
    APP2010,         \* data.APP2010: entity -> prior seats
    args_seats,      \* the seat total main passes (args.seats)
    app_method,      \* "equal_proportions" or "largest_remainders"
    divisor_type,    \* args.divisor
    quota_type,      \* args.quota_type
    no_losers,       \* args.no_losers
    pc,              \* position in the called function
    err,             \* the exception that ended the run, "none" otherwise
    SEATS,           \* data.SEATS: entity -> seats (all 0: column not yet set)
    seats,           \* the `seats` parameter of the executing frame
    frame_quota_type,\* the `quota_type` parameter of the executing plain frame
    inner,           \* TRUE inside the recursive call of line 76
    quota,           \* the local `quota` of largest_remainders
    lastAward,       \* the trace line printed at line 61 (last award)
    prevSEATS,       \* the table returned by the previous of two plain calls
    round            \* 1 in the first call, 2 in the repeat call at seats+1

vars == <<POPULATION, APP2010, args_seats, app_method, divisor_type, quota_type,
          no_losers, pc, err, SEATS, seats, frame_quota_type, inner, quota,
          lastAward, prevSEATS, round>>

inputs == <<POPULATION, APP2010, args_seats, app_method, divisor_type,
            quota_type, no_losers>>

\* ----------------------------------------------------------------- helpers
RECURSIVE SumOver(_, _)
SumOver(f, S) ==
    IF S = {} THEN 0
    ELSE LET i == CHOOSE x \in S : TRUE IN f[i] + SumOver(f, S \ {i})

\* Series.sum() over the table's rows.
Sum(f) == SumOver(f, Entities)

NumEntities == Cardinality(Entities)

\* math.floor(a / b) and Series // b for a >= 0, b > 0.
FloorDiv(a, b) == a \div b

NoAward == [n |-> 0, state |-> 0, seats |-> 0]

\* ---------------------------------------------- equal_proportions (33-66)
\* Lines 44-55: the divisor for an entity holding s seats, times 2 (the
\* factor keeps imperiali's s/2+1 an integer and cancels when two
\* priorities are compared).  huntington-hill's sqrt(s*(s+1)) is compared
\* through its square in PriorityLess.
TwiceDivisor(dt, s) ==
    CASE dt = "jefferson" -> 2 * (s + 1)
      [] dt = "webster"   -> 2 * ((s * 2) + 1)
      [] dt = "imperiali" -> s + 2
      [] dt = "danish"    -> 2 * ((s * 3) + 1)
      [] dt = "hamilton"  -> 2 * s
      [] OTHER            -> 0

\* Line 57: PRIORITY = POPULATION / divisor; p1/divisor(s1) < p2/divisor(s2).
\* Populations are >= 0 and divisors > 0 (s >= 1), so the quotients compare
\* as their cross products do; IEEE division rounds equal quotients to the
\* same float and the bounded values keep unequal ones apart.
PriorityLess(dt, p1, s1, p2, s2) ==
    IF dt \in {"jefferson", "webster", "imperiali", "danish", "hamilton"}
    THEN p1 * TwiceDivisor(dt, s2) < p2 * TwiceDivisor(dt, s1)
    ELSE (p1 * p1) * (s2 * (s2 + 1)) < (p2 * p2) * (s1 * (s1 + 1))

\* A seeded fault: idxmax returning the last row holding the maximum.
IdxMaxLast(dt, P, S) ==
    CHOOSE i \in Entities :
        /\ \A j \in Entities : ~PriorityLess(dt, P[i], S[i], P[j], S[j])
        /\ \A j \in Entities :
              j > i => PriorityLess(dt, P[j], S[j], P[i], S[i])

\* Line 58: data.PRIORITY.idxmax(), the first row holding the maximum.
IdxMax(dt, P, S) ==
    CHOOSE i \in Entities :
        /\ \A j \in Entities : ~PriorityLess(dt, P[i], S[i], P[j], S[j])
        /\ \A j \in Entities :
              j < i => PriorityLess(dt, P[j], S[j], P[i], S[i])

\* A seeded fault: the loop bound compared with <= instead of <.
EPContinueOffByOne(S) ==
    \/ Sum(S) <= seats
    \/ no_losers /\ \E i \in Entities : S[i] < APP2010[i]

\* A seeded fault: the no-losers disjunct of the loop condition dropped.
EPContinueIgnoresFloors(S) == Sum(S) < seats

\* Lines 41-42: the while condition.
EPContinue(S) ==
    \/ Sum(S) < seats
    \/ no_losers /\ \E i \in Entities : S[i] < APP2010[i]

\* A seeded fault: the sanity check removed.
EPSanityOff(S) == TRUE

\* Line 64: assert no_losers or data.SEATS.sum() == seats.
EPSanity(S) == no_losers \/ Sum(S) = seats

\* Lines 36-39: every entity starts with one seat.
EPInit ==
    /\ pc = "start"
    /\ app_method = "equal_proportions"
    /\ SEATS' = [i \in Entities |-> 1]
    /\ seats' = args_seats
    /\ pc' = "ep_loop"
    /\ UNCHANGED <<inputs, err, frame_quota_type, inner, quota, lastAward,
                   prevSEATS, round>>

\* Lines 41-61: one iteration of the award loop.
EPAward ==
    /\ pc = "ep_loop"
    /\ EPContinue(SEATS)
    /\ Sum(SEATS) < MaxTotal
    /\ LET state_maxpri == IdxMax(divisor_type, POPULATION, SEATS)
       IN /\ SEATS' = [SEATS EXCEPT ![state_maxpri] = @ + 1]
          /\ lastAward' = [n |-> Sum(SEATS) + 1, state |-> state_maxpri,
                           seats |-> SEATS[state_maxpri] + 1]
    /\ UNCHANGED <<inputs, pc, err, seats, frame_quota_type, inner, quota,
                   prevSEATS, round>>

\* Lines 41-42 false, then 64-66: the sanity check and the return.
EPReturn ==
    /\ pc = "ep_loop"
    /\ ~EPContinue(SEATS)
    /\ IF EPSanity(SEATS)
       THEN pc' = "done" /\ err' = err
       ELSE pc' = "failed" /\ err' = "AssertionError"
    /\ UNCHANGED <<inputs, SEATS, seats, frame_quota_type, inner, quota,
                   lastAward, prevSEATS, round>>

\* --------------------------------------------- largest_remainders (69-114)
\* Lines 86-94 divide by seats, seats+1 or seats+2: only the Hare quota at
\* seats = 0 divides by zero.
QuotaDefined(qt, T) == qt \in {"droop", "hagenbach-bischoff", "imperiali"} \/ T # 0

\* Lines 86-94: the quota for total population `total` and T seats.
Quota(qt, total, T) ==
    CASE qt = "droop"              -> FloorDiv(total, T + 1) + 1
      [] qt = "hagenbach-bischoff" -> FloorDiv(total, T + 1)
      [] qt = "imperiali"          -> FloorDiv(total, T + 2)
      [] OTHER                     -> FloorDiv(total, T)

\* A seeded fault: line 98 written with % in place of //.
InitialSeatsModulo(P, q) ==
    [i \in Entities |-> IF P[i] % q < 1 THEN 1 ELSE P[i] % q]

\* A seeded fault: line 99 (the minimum of one seat) left out.
InitialSeatsNoMinimum(P, q) == [i \in Entities |-> FloorDiv(P[i], q)]

\* Lines 98-99: POPULATION // quota, raised to 1 where it is below 1.
InitialSeats(P, q) ==
    [i \in Entities |-> IF FloorDiv(P[i], q) < 1 THEN 1 ELSE FloorDiv(P[i], q)]

\* Line 103: remainders = POPULATION/quota - SEATS, times quota (> 0), which
\* keeps their order.
Remainders(P, S, q) == [i \in Entities |-> P[i] - (S[i] * q)]

\* The number of rows iloc[:k] keeps of n rows (line 106): a negative k
\* drops the last -k rows, a k above n keeps all n.
SliceCount(n, k) ==
    IF k < 0 THEN (IF n + k > 0 THEN n + k ELSE 0)
    ELSE (IF k < n THEN k ELSE n)

\* Lines 101-106: the index sets iloc[:remaining_seats] can hold after
\* sort_values(ascending=False).  The sort is pandas' default quicksort,
\* which is not stable, and the float remainders of two rows with the same
\* exact remainder may round apart: the order among rows with equal exact
\* remainders is any order.
StatesToAdd(P, S, q, T) ==
    LET r == Remainders(P, S, q)
        k == SliceCount(NumEntities, T - Sum(S))
    IN {A \in SUBSET Entities :
            /\ Cardinality(A) = k
            /\ \A i \in A : \A j \in Entities \ A : r[i] >= r[j]}

\* Line 109: data.loc[states_to_add.index, 'SEATS'] += 1.
AddSeats(S, A) == [i \in Entities |-> IF i \in A THEN S[i] + 1 ELSE S[i]]

\* Line 77: (result.SEATS < data.APP2010).any().
BelowFloor(S) == \E i \in Entities : S[i] < APP2010[i]

\* Lines 72-76, first iteration: no-losers mode calls the plain allocator
\* recursively, passing data and seats only, so the callee's quota_type is
\* its default 'hare'.
LRNoLosersCall ==
    /\ pc = "start"
    /\ app_method = "largest_remainders"
    /\ no_losers
    /\ seats' = args_seats
    /\ inner' = TRUE
    /\ frame_quota_type' = "hare"
    /\ pc' = "lr_quota"
    /\ UNCHANGED <<inputs, err, SEATS, quota, lastAward, prevSEATS, round>>

\* Line 72 false: the plain allocator, called by main with args.quota_type.
LRPlainCall ==
    /\ pc = "start"
    /\ app_method = "largest_remainders"
    /\ ~no_losers
    /\ seats' = args_seats
    /\ inner' = FALSE
    /\ frame_quota_type' = quota_type
    /\ pc' = "lr_quota"
    /\ UNCHANGED <<inputs, err, SEATS, quota, lastAward, prevSEATS, round>>

\* Lines 84-99: the quota and the initial seats.  A quota computed by a
\* division by zero raises at once; a quota of 0 makes line 98 produce
\* inf/NaN seat counts, and every such run ends in an exception before it
\* returns (int(inf) at line 101, the assertion at line 112, or
\* astype(int) at line 114): the model ends the run here.
LRQuota ==
    /\ pc = "lr_quota"
    /\ LET total_population == Sum(POPULATION)
       IN IF /\ QuotaDefined(frame_quota_type, seats)
             /\ Quota(frame_quota_type, total_population, seats) > 0
          THEN /\ quota' = Quota(frame_quota_type, total_population, seats)
               /\ SEATS' = InitialSeats(POPULATION, quota')
               /\ pc' = "lr_award"
               /\ err' = err
          ELSE /\ pc' = "failed"
               /\ err' = "ArithmeticError"
               /\ UNCHANGED <<quota, SEATS>>
    /\ UNCHANGED <<inputs, seats, frame_quota_type, inner, lastAward,
                   prevSEATS, round>>

\* Lines 101-109: the rows with the largest remainders get one more seat.
LRAward ==
    /\ pc = "lr_award"
    /\ \E A \in StatesToAdd(POPULATION, SEATS, quota, seats) :
          SEATS' = AddSeats(SEATS, A)
    /\ pc' = "lr_check"
    /\ UNCHANGED <<inputs, err, seats, frame_quota_type, inner, quota,
                   lastAward, prevSEATS, round>>

\* Lines 112-114: the sanity check and the return of the plain allocator,
\* to main or to the no-losers loop.
LRCheck ==
    /\ pc = "lr_check"
    /\ IF Sum(SEATS) = seats
       THEN pc' = (IF inner THEN "lr_test" ELSE "done") /\ err' = err
       ELSE pc' = "failed" /\ err' = "AssertionError"
    /\ UNCHANGED <<inputs, SEATS, seats, frame_quota_type, inner, quota,
                   lastAward, prevSEATS, round>>

\* Lines 77-78, then 76 again: some entity is below its prior seats, so the
\* total is raised by one and the plain allocator is called again.
LRRetry ==
    /\ pc = "lr_test"
    /\ BelowFloor(SEATS)
    /\ seats' = seats + 1
    /\ pc' = "lr_quota"
    /\ UNCHANGED <<inputs, err, SEATS, frame_quota_type, inner, quota,
                   lastAward, prevSEATS, round>>

\* Lines 77, 79-82: no entity is below its prior seats: return the result.
LRKeep ==
    /\ pc = "lr_test"
    /\ ~BelowFloor(SEATS)
    /\ pc' = "done"
    /\ UNCHANGED <<inputs, err, SEATS, seats, frame_quota_type, inner, quota,
                   lastAward, prevSEATS, round>>

\* The plain allocator called a second time on the same table with one more
\* seat (what lines 76-78 do in the no-losers loop), keeping the first
\* table for comparison.
CallAgain ==
    /\ pc = "done"
    /\ app_method = "largest_remainders"
    /\ ~no_losers
    /\ round = 1
    /\ prevSEATS' = SEATS
    /\ round' = 2
    /\ seats' = seats + 1
    /\ pc' = "lr_quota"
    /\ UNCHANGED <<inputs, err, SEATS, frame_quota_type, inner, quota,
                   lastAward>>

\* ------------------------------------------------- the allocators as functions
\* equal_proportions in plain mode from the seat table S up to total T.
RECURSIVE EPRun(_, _, _, _)
EPRun(dt, P, S, T) ==
    IF Sum(S) >= T THEN S
    ELSE EPRun(dt, P, [S EXCEPT ![IdxMax(dt, P, S)] = @ + 1], T)

\* The tables plain equal_proportions can return for total T: none when
\* the sanity check fails (T below the number of entities).
PlainEP(dt, P, T) ==
    IF T < NumEntities THEN {}
    ELSE {EPRun(dt, P, [i \in Entities |-> 1], T)}

\* The tables plain largest_remainders can return for total T: none when
\* the quota is undefined or 0, and only those that pass the sanity check.
PlainLR(qt, P, T) ==
    IF ~QuotaDefined(qt, T) THEN {}
    ELSE LET q == Quota(qt, Sum(P), T)
         IN IF q = 0 THEN {}
            ELSE LET S0 == InitialSeats(P, q)
                 IN {R \in {AddSeats(S0, A) : A \in StatesToAdd(P, S0, q, T)} :
                        Sum(R) = T}

\* ------------------------------------------------------------ specifications
\* Plain mode never reads APP2010 (lines 42 and 72 test no_losers first):
\* one table of prior seats stands for all of them there.  No-losers mode
\* reads APP2010 only in SEATS < APP2010 (lines 42 and 77), and SEATS is at
\* least 1 from lines 39 and 99 on: a prior seat count of 0 acts as 1.
PriorSeats(nl) ==
    IF nl THEN [Entities -> 1 .. MaxPrior] ELSE {[i \in Entities |-> 1]}

InitRun ==
    /\ pc = "start"
    /\ err = "none"
    /\ SEATS = [i \in Entities |-> 0]
    /\ seats = args_seats
    /\ frame_quota_type = quota_type
    /\ inner = FALSE
    /\ quota = 0
    /\ lastAward = NoAward
    /\ prevSEATS = [i \in Entities |-> 0]
    /\ round = 1

\* main calling equal_proportions (line 174, the default app_method).
InitEP ==
    /\ POPULATION \in [Entities -> 0 .. MaxPop]
    /\ no_losers \in BOOLEAN
    /\ APP2010 \in PriorSeats(no_losers)
    /\ args_seats \in 0 .. MaxTarget
    /\ app_method = "equal_proportions"
    /\ divisor_type \in DivisorTypes
    /\ quota_type = "hare"
    /\ InitRun

\* main calling largest_remainders (line 174 with --largest-remainders).
InitLR ==
    /\ POPULATION \in [Entities -> 0 .. LRMaxPop]
    /\ no_losers \in BOOLEAN
    /\ APP2010 \in PriorSeats(no_losers)
    /\ args_seats \in 0 .. MaxTarget
    /\ app_method = "largest_remainders"
    /\ divisor_type = "huntington-hill"
    /\ quota_type \in QuotaTypes
    /\ InitRun

\* Plain largest_remainders on larger tables, for the two-call runs.
InitTotals ==
    /\ POPULATION \in [Entities -> 0 .. TotalsMaxPop]
    /\ no_losers = FALSE
    /\ APP2010 = [i \in Entities |-> 1]
    /\ args_seats \in 1 .. TotalsMaxTarget
    /\ app_method = "largest_remainders"
    /\ divisor_type = "huntington-hill"
    /\ quota_type \in QuotaTypes
    /\ InitRun

\* No-losers largest_remainders on larger tables of positive populations,
\* with a target of at least the number of entities.
InitNoLosersLR ==
    /\ POPULATION \in [Entities -> 1 .. NLMaxPop]
    /\ no_losers = TRUE
    /\ APP2010 \in PriorSeats(TRUE)
    /\ args_seats \in NumEntities .. NLMaxTarget
    /\ app_method = "largest_remainders"
    /\ divisor_type = "huntington-hill"
    /\ quota_type \in QuotaTypes
    /\ InitRun

Init == InitEP \/ InitLR

NextEP == EPInit \/ EPAward \/ EPReturn

NextLR == LRNoLosersCall \/ LRPlainCall \/ LRQuota \/ LRAward \/ LRCheck
             \/ LRRetry \/ LRKeep

NextNoLosersLR == LRNoLosersCall \/ LRQuota \/ LRAward \/ LRCheck \/ LRRetry
                     \/ LRKeep

NextTotals == LRPlainCall \/ LRQuota \/ LRAward \/ LRCheck \/ CallAgain

Next == EPInit \/ EPAward \/ EPReturn \/ LRNoLosersCall \/ LRPlainCall
           \/ LRQuota \/ LRAward \/ LRCheck \/ LRRetry \/ LRKeep

\* Every run of either allocator.
Spec == Init /\ [][Next]_vars

\* Runs of equal_proportions.
SpecEP == InitEP /\ [][NextEP]_vars

\* Runs of equal_proportions that keep running: the function is
\* straight-line synchronous code, so a step that can be taken is taken.
FairSpecEP == InitEP /\ [][NextEP]_vars /\ WF_vars(NextEP)

\* Runs of largest_remainders.
SpecLR == InitLR /\ [][NextLR]_vars

\* No-losers runs of largest_remainders on larger tables.
SpecNoLosersLR == InitNoLosersLR /\ [][NextNoLosersLR]_vars

\* Plain largest_remainders at a total T and then at T+1.
SpecTotals == InitTotals /\ [][NextTotals]_vars

\* ------------------------------------------------------------------- claims
IsEP == app_method = "equal_proportions"
IsLR == app_method = "largest_remainders"

\* Tables without empty entities.
PositivePopulations == \A i \in Entities : POPULATION[i] > 0

\* C1: plain equal_proportions with an integer target of at least the number
\* of entities never fails its sanity check and returns a table whose seats
\* sum to exactly the target.
C1_PlainEPSumsToTarget ==
    (IsEP /\ ~no_losers /\ args_seats >= NumEntities)
        => /\ pc # "failed"
           /\ pc = "done" => Sum(SEATS) = args_seats

\* A plain equal_proportions run that awarded seats and returned.
C1_Witness ==
    /\ IsEP /\ ~no_losers /\ pc = "done"
    /\ \A i \in Entities : POPULATION[i] > 0
    /\ args_seats > NumEntities
    /\ Sum(SEATS) = args_seats
    /\ lastAward.n = args_seats

\* C2: plain largest_remainders with an integer target of at least the number
\* of entities never fails and returns a table whose seats sum to exactly
\* the target.  Stated for the tables least in doubt: every population is
\* positive and the total population is at least the target plus 2, which
\* makes each of the four quotas positive.
C2_PlainLRSumsToTarget ==
    (/\ IsLR /\ ~no_losers /\ args_seats >= NumEntities
     /\ PositivePopulations /\ Sum(POPULATION) >= args_seats + 2)
        => /\ pc # "failed"
           /\ pc = "done" => Sum(SEATS) = args_seats

\* C3: whenever either allocator returns in no-losers mode, every entity
\* holds at least its prior seats and the total is at least the target.
C3_NoLosersFloors ==
    (pc = "done" /\ no_losers)
        => /\ \A i \in Entities : SEATS[i] >= APP2010[i]
           /\ Sum(SEATS) >= args_seats

\* A no-losers largest_remainders run that had to raise the total to reach
\* some entity's prior seats, and returned.
C3_Witness ==
    /\ pc = "done" /\ no_losers /\ IsLR
    /\ seats > args_seats
    /\ \E i \in Entities : APP2010[i] >= 2 /\ SEATS[i] = APP2010[i]

\* The tables the plain allocator of the run's method and configured formula
\* can return at total T.
Plain(T) ==
    IF IsEP THEN PlainEP(divisor_type, POPULATION, T)
    ELSE PlainLR(quota_type, POPULATION, T)

\* C4: a no-losers run returns what the plain allocator with the configured
\* divisor or quota formula returns at the returned total, and at no smaller
\* total from the target on does that plain allocator meet every floor.
\* Stated for tables of positive populations and for runs at whose returned
\* total the plain allocator with the configured formula returns.
C4_NoLosersIsPlainAtMinimalTotal ==
    (/\ pc = "done" /\ no_losers /\ PositivePopulations
     /\ Plain(Sum(SEATS)) # {})
        => /\ SEATS \in Plain(Sum(SEATS))
           /\ \A T \in args_seats .. (Sum(SEATS) - 1) :
                 \/ Plain(T) = {}
                 \/ \E R \in Plain(T) : \E i \in Entities : R[i] < APP2010[i]

\* C5: the award loop of equal_proportions in no-losers mode eventually
\* stops, with the function returning.  Stated for tables with a positive
\* total population.
C5_EPNoLosersStops ==
    (no_losers /\ Sum(POPULATION) > 0) => <>(pc = "done")

\* An entity that can never be awarded a seat: it is below its prior seats,
\* its population is 0, and line 58 prefers some other row (one with a
\* positive population, or an earlier row in a table of zero populations).
Starved(i) ==
    /\ IsEP /\ no_losers /\ pc = "ep_loop"
    /\ POPULATION[i] = 0
    /\ SEATS[i] < APP2010[i]
    /\ \E j \in Entities : POPULATION[j] > 0 \/ j < i

\* Once an entity is starved it stays starved at every step of the loop, so
\* the loop condition of lines 41-42 stays true.
StarvedForever ==
    [][\A i \in Entities : Starved(i) => Starved(i)']_vars

\* The model's ceiling MaxTotal stops only runs that hold a starved entity.
CeilingOnlyStopsStarvedRuns ==
    (pc = "ep_loop" /\ EPContinue(SEATS) /\ Sum(SEATS) >= MaxTotal)
        => \E i \in Entities : Starved(i)

\* C6: the no-losers search of largest_remainders, started at a target of at
\* least the number of entities, never aborts (on a failed sum assertion or
\* a zero quota) at any candidate total.  Stated for tables of positive
\* populations in which no entity's prior seats exceed its population, so
\* that a total (the total population) exists at which every floor is met.
C6_LRNoLosersNeverAborts ==
    (/\ IsLR /\ no_losers /\ args_seats >= NumEntities
     /\ PositivePopulations
     /\ Sum(POPULATION) >= args_seats
     /\ \A i \in Entities : APP2010[i] <= POPULATION[i])
        => pc # "failed"

SeatsInitialised ==
    \/ pc \in {"ep_loop", "lr_award", "lr_check", "lr_test", "done"}
    \/ pc = "failed" /\ err = "AssertionError"

C9_AwardStep ==
    [][(pc = "ep_loop" /\ pc' = "ep_loop")
         => /\ \E i \in Entities :
                 /\ SEATS'[i] = SEATS[i] + 1
                 /\ \A j \in Entities \ {i} : SEATS'[j] = SEATS[j]
                 /\ \A j \in Entities :
                       ~PriorityLess(divisor_type, POPULATION[i], SEATS[i],
                                     POPULATION[j], SEATS[j])
                 /\ \A j \in Entities :
                       j < i => PriorityLess(divisor_type,
                                             POPULATION[j], SEATS[j],
                                             POPULATION[i], SEATS[i])
            /\ \A j \in Entities : SEATS'[j] >= SEATS[j]
            /\ Sum(SEATS') = Sum(SEATS) + 1]_vars

\* Just after an award that broke a tie: the awarded row and a later row
\* had the same population and the same seats before the award.
C9_Witness ==
    /\ pc = "ep_loop"
    /\ lastAward.state \in Entities
    /\ POPULATION[lastAward.state] > 0
    /\ lastAward.seats = SEATS[lastAward.state]
    /\ \E j \in Entities :
          /\ j > lastAward.state
          /\ POPULATION[j] = POPULATION[lastAward.state]
          /\ SEATS[j] = SEATS[lastAward.state] - 1

\* Neither of the two calls had rows of equal remainder to choose between:
\* each returned the only table it can return.
TotalsTieFree ==
    /\ PlainLR(quota_type, POPULATION, seats) = {SEATS}
    /\ PlainLR(quota_type, POPULATION, seats - 1) = {prevSEATS}

\* C10 as stated: when plain largest_remainders returns at T and at T+1, no
\* entity holds fewer seats at T+1 than at T.  Stated for tables of positive
\* populations and for calls whose result does not depend on the order of
\* equal remainders.
C10_TotalsMonotone ==
    (round = 2 /\ pc = "done" /\ PositivePopulations /\ TotalsTieFree)
        => \A i \in Entities : SEATS[i] >= prevSEATS[i]

\* The seats entity i holds by whole quotas at total T: its population
\* divided by the quota of T, rounded down, and at least 1.
WholeQuotaSeats(i, T) ==
    LET q == Quota(quota_type, Sum(POPULATION), T)
    IN IF POPULATION[i] \div q < 1 THEN 1 ELSE POPULATION[i] \div q

\* C10 as amended: when plain largest_remainders returns at T and at T+1, no
\* entity holds fewer seats at T+1 than its whole-quota seats at T, so no
\* entity holds more than one seat fewer at T+1 than at T.
C10_TotalsDropAtMostOne ==
    (round = 2 /\ pc = "done")
        => \A i \in Entities :
              /\ SEATS[i] >= WholeQuotaSeats(i, seats - 1)
              /\ SEATS[i] >= prevSEATS[i] - 1

\* Both calls returned on a table of positive populations, an entity lost a
\* seat at the larger total, and neither call had equal remainders to
\* choose between.
C10_Witness ==
    /\ round = 2 /\ pc = "done"
    /\ PositivePopulations
    /\ \E i \in Entities : SEATS[i] = prevSEATS[i] - 1
    /\ TotalsTieFree

====
